---- MODULE Spec2Model ----
(***************************************************************************)
(* Model of the statistics engine of the verb-conjugation drill            *)
(* (src/main.go): catalog construction, reconciliation with the saved      *)
(* statistics file, streak bookkeeping, weighted question sampling and the *)
(* quit / save protocol of the bubbletea screens.                          *)
(*                                                                         *)
(* Strings are sequences of one-character strings, so that encode,         *)
(* decodePrompt (strings.Split) and strings.TrimSpace are computed on the  *)
(* characters.  Weights are exact rationals scaled by Scale.               *)
(***************************************************************************)
EXTENDS Integers, Sequences, FiniteSets, TLC

\* ---------------------------------------------------------------- bounds
\* number of answer submissions explored in one session
MaxAnswers == 1
\* number of sampling misses (recursive retries) followed in one draw
MaxRetries == 1
\* number of entries of the statistics file read at startup
MaxSnapshotEntries == 2
\* rand.Float32() is drawn from { k / RandSteps : k \in 0 .. RandSteps-1 }
RandSteps == 10

\* ---------------------------------------------------------------- exit codes
ok == 0
statisticsError == 6
\* value of exitCode while the process runs
noExit == 0 - 1

\* uint16 arithmetic of questionStats
Uint16Mod == 65536

\* ---------------------------------------------------------------- strings
statisticsPromptSeparator == "+"

str_1sg == <<"1", "s", "g">>
str_2sg == <<"2", "s", "g">>
str_3sg == <<"3", "s", "g">>
str_run == <<"r", "u", "n">>
str_runs == <<"r", "u", "n", "s">>
str_ran == <<"r", "a", "n">>
str_old == <<"o", "l", "d">>
str_empty == <<>>
str_run_padded == <<" ", "r", "u", "n", " ">>
str_onlyonefield == <<"o", "n", "l", "y", "o", "n", "e", "f", "i", "e", "l", "d">>
str_a_b_c == <<"a", "+", "b", "+", "c">>

\* strings.Split(s, sep) for a one-character separator: the tokens between
\* the separators, Len = number of separators + 1
RECURSIVE SplitFrom(_, _, _, _)
SplitFrom(s, i, current, tokens) ==
    IF i > Len(s) THEN Append(tokens, current)
    ELSE IF s[i] = statisticsPromptSeparator
         THEN SplitFrom(s, i + 1, <<>>, Append(tokens, current))
         ELSE SplitFrom(s, i + 1, Append(current, s[i]), tokens)

Split(s) == SplitFrom(s, 1, <<>>, <<>>)

\* strings.TrimSpace
RECURSIVE TrimLeft(_)
TrimLeft(s) == IF Len(s) > 0 /\ s[1] = " " THEN TrimLeft(Tail(s)) ELSE s

RECURSIVE TrimRight(_)
TrimRight(s) ==
    IF Len(s) > 0 /\ s[Len(s)] = " " THEN TrimRight(SubSeq(s, 1, Len(s) - 1)) ELSE s

TrimSpace(s) == TrimRight(TrimLeft(s))

\* ---------------------------------------------------------------- prompts
Prompt(clue, verb) == [formClue |-> clue, verb |-> verb]

\* prompt.encode
encode(p) == p.formClue \o <<statisticsPromptSeparator>> \o p.verb

\* decodePrompt: fatal (exit statisticsError) unless exactly two tokens
decodePrompt_lenient(encodedPrompt) ==
    LET prompt_tokens == Split(encodedPrompt)
    IN  IF Len(prompt_tokens) < 2
        THEN [fatal |-> FALSE, prompt |-> Prompt(prompt_tokens[1], <<>>)]
        ELSE [fatal |-> FALSE, prompt |-> Prompt(prompt_tokens[1], prompt_tokens[2])]

decodePrompt(encodedPrompt) ==
    LET prompt_tokens == Split(encodedPrompt)
    IN  IF Len(prompt_tokens) # 2
        THEN [fatal |-> TRUE, prompt |-> Prompt(<<>>, <<>>)]
        ELSE [fatal |-> FALSE, prompt |-> Prompt(prompt_tokens[1], prompt_tokens[2])]

\* ---------------------------------------------------------------- maps
\* Go map read: the zero value for a missing key
MapGet(m, k, zero) == IF k \in DOMAIN m THEN m[k] ELSE zero

\* Go map write m[k] = v
MapSet(m, k, v) == [x \in (DOMAIN m) \cup {k} |-> IF x = k THEN v ELSE m[x]]

EmptyMap == [x \in {} |-> 0]

\* ---------------------------------------------------------------- weights
RECURSIVE Gcd(_, _)
Gcd(a, b) == IF b = 0 THEN a ELSE Gcd(b, a % b)

Lcm(a, b) == (a * b) \div Gcd(a, b)

RECURSIVE LcmUpTo(_)
LcmUpTo(n) == IF n <= 1 THEN 1 ELSE Lcm(LcmUpTo(n - 1), n)

\* one unit of weight; every 1/(1+streak) the model reaches, every
\* k/RandSteps of a total and 1.4 are whole numbers of 1/Scale
Scale == Lcm(Lcm(Lcm(LcmUpTo(MaxAnswers + 3), Uint16Mod), RandSteps), 10)

questionStats(streak, correct, mistakes) ==
    [streak |-> streak, correct |-> correct, mistakes |-> mistakes]

ZeroStats == questionStats(0, 0, 0)

\* questionStats.probWeight: 1 / (1 + float32(streak))
probWeight(stats) == Scale \div (1 + stats.streak)

RECURSIVE SumWeights(_, _)
SumWeights(statistics, prompts) ==
    IF prompts = {} THEN 0
    ELSE LET p == CHOOSE x \in prompts : TRUE
         IN  probWeight(statistics[p]) + SumWeights(statistics, prompts \ {p})

\* the recomputed sum of 1/(1+streak) over all entries
LiveWeight(statistics) == SumWeights(statistics, DOMAIN statistics)


\* ---------------------------------------------------------------- vocabulary
\* wordDatabase values handed over by read_database
wordDatabase(formClue, verbs, verbForms) ==
    [formClue |-> formClue, verbs |-> verbs, verbForms |-> verbForms]

\* the table of the end-to-end example: 1sg+run = "run", 3sg+run = "runs"
DbExample == wordDatabase(<<str_1sg, str_3sg>>, <<str_run>>, <<<<str_run, str_runs>>>>)
\* a row shorter than the header: the cell of 3sg is missing
DbShortRow == wordDatabase(<<str_1sg, str_3sg>>, <<str_run>>, <<<<str_run>>>>)
\* every cell empty or missing
DbNoForms == wordDatabase(<<str_1sg, str_3sg>>, <<str_run>>, <<<<str_empty>>>>)
\* the verb name "run" occurs in two rows
DbRepeatedVerb ==
    wordDatabase(<<str_1sg, str_3sg>>, <<str_run, str_run>>,
                 <<<<str_run, str_runs>>, <<str_ran, str_empty>>>>)

Databases == {DbExample, DbShortRow, DbNoForms, DbRepeatedVerb}

\* statisticsDatabase struct value
statisticsDatabaseOf(statistics, answers, totalProbWeight, deadRecords) ==
    [statistics |-> statistics, answers |-> answers,
     totalProbWeight |-> totalProbWeight, deadRecords |-> deadRecords]

\* emptyStatistics: the two nested range loops, cell k = (verbIndex, clueIndex)
\* in row-major order; a later cell of the same (clue, verb) overwrites the
\* map entries and still increments totalProbWeight
RECURSIVE emptyStatisticsLoop(_, _, _)
emptyStatisticsLoop(database, k, acc) ==
    LET nClues == Len(database.formClue)
        nCells == Len(database.verbs) * nClues
        verbIndex == (k \div nClues) + 1
        clueIndex == (k % nClues) + 1
        p == Prompt(database.formClue[clueIndex], database.verbs[verbIndex])
    IN  IF k >= nCells THEN acc
        ELSE IF Len(database.verbForms[verbIndex]) < clueIndex
                \/ database.verbForms[verbIndex][clueIndex] = str_empty
             THEN emptyStatisticsLoop(database, k + 1, acc)
             ELSE emptyStatisticsLoop(database, k + 1,
                    statisticsDatabaseOf(
                        MapSet(acc.statistics, p, ZeroStats),
                        MapSet(acc.answers, p, database.verbForms[verbIndex][clueIndex]),
                        acc.totalProbWeight + Scale,
                        acc.deadRecords))

emptyStatistics(database) ==
    emptyStatisticsLoop(database, 0,
        statisticsDatabaseOf(EmptyMap, EmptyMap, 0, EmptyMap))

\* ---------------------------------------------------------------- receivers
\* A method with a value receiver (func (statistics statisticsDatabase) ...)
\* works on a copy of the struct: the three maps are shared with the caller,
\* the float32 field totalProbWeight is the copy's own and is dropped on return.
ValueReceiverReturn(caller, callee) ==
    [caller EXCEPT !.statistics = callee.statistics,
                   !.answers = callee.answers,
                   !.deadRecords = callee.deadRecords]

\* updateStats writing newStats to every entry of the map
updateStatsBody_allEntries(statistics, prompt, newStats) ==
    [statistics EXCEPT !.statistics =
        [x \in (DOMAIN statistics.statistics) \cup {prompt} |-> newStats]]

\* updateStats as executed on the receiver's copy
updateStatsBody(statistics, prompt, newStats) ==
    LET old == MapGet(statistics.statistics, prompt, ZeroStats)
        afterSub == statistics.totalProbWeight - probWeight(old)
    IN  [statistics EXCEPT !.statistics = MapSet(@, prompt, newStats),
                           !.totalProbWeight = afterSub + probWeight(newStats)]

\* updateStats as seen by its caller
updateStats(statistics, prompt, newStats) ==
    ValueReceiverReturn(statistics, updateStatsBody(statistics, prompt, newStats))

\* endStreak as seen by its caller
endStreak(statistics, prompt) ==
    LET oldStats == MapGet(statistics.statistics, prompt, ZeroStats)
    IN  ValueReceiverReturn(statistics,
            updateStats(statistics, prompt,
                questionStats(0, oldStats.correct, (oldStats.mistakes + 1) % Uint16Mod)))

\* continueStreak as seen by its caller
continueStreak(statistics, prompt) ==
    LET oldStats == MapGet(statistics.statistics, prompt, ZeroStats)
    IN  ValueReceiverReturn(statistics,
            updateStats(statistics, prompt,
                questionStats((oldStats.streak + 1) % Uint16Mod,
                              (oldStats.correct + 1) % Uint16Mod,
                              oldStats.mistakes)))

\* ---------------------------------------------------------------- statistics file
promptDataTOML(Streak, Correct, Mistakes, Answer) ==
    [Streak |-> Streak, Correct |-> Correct, Mistakes |-> Mistakes, Answer |-> Answer]

\* one iteration of the range loop of expand that stores the entry of a
\* prompt missing from the vocabulary among the live entries
expandEntry_inject(statistics, encodedPrompt, data) ==
    LET prompt == decodePrompt(encodedPrompt).prompt
    IN  IF prompt \in DOMAIN statistics.statistics
           /\ data.Answer # MapGet(statistics.answers, prompt, str_empty)
        THEN statistics
        ELSE updateStats(statistics, prompt,
                 questionStats(data.Streak, data.Correct, data.Mistakes))

\* one iteration of the range loop of expand
expandEntry_noAnswerCheck(statistics, encodedPrompt, data) ==
    LET prompt == decodePrompt(encodedPrompt).prompt
    IN  IF prompt \notin DOMAIN statistics.statistics
        THEN [statistics EXCEPT !.deadRecords = MapSet(@, encodedPrompt, data)]
        ELSE updateStats(statistics, prompt,
                 questionStats(data.Streak, data.Correct, data.Mistakes))

expandEntry(statistics, encodedPrompt, data) ==
    LET prompt == decodePrompt(encodedPrompt).prompt
    IN  IF prompt \notin DOMAIN statistics.statistics
        THEN [statistics EXCEPT !.deadRecords = MapSet(@, encodedPrompt, data)]
        ELSE IF data.Answer # MapGet(statistics.answers, prompt, str_empty)
             THEN statistics
             ELSE updateStats(statistics, prompt,
                      questionStats(data.Streak, data.Correct, data.Mistakes))

\* expand over the entries in the order `keys` of the map iteration; stops at
\* the first key decodePrompt rejects (exit(statisticsError))
RECURSIVE expandLoop(_, _, _, _)
expandLoop(statistics, statisticsTOML, keys, i) ==
    IF i > Len(keys) THEN [fatal |-> FALSE, statistics |-> statistics]
    ELSE IF decodePrompt(keys[i]).fatal
         THEN [fatal |-> TRUE, statistics |-> statistics]
         ELSE expandLoop(expandEntry(statistics, keys[i], statisticsTOML[keys[i]]),
                         statisticsTOML, keys, i + 1)

\* expand as seen by its caller loadStatistics
expand(statistics, statisticsTOML, keys) ==
    LET r == expandLoop(statistics, statisticsTOML, keys, 1)
    IN  [fatal |-> r.fatal, statistics |-> ValueReceiverReturn(statistics, r.statistics)]

\* pack: `statistics := statisticsDatabase.deadRecords` is the same map, so the
\* entries written for the live prompts land in deadRecords as well
RECURSIVE packLoop(_, _, _)
packLoop(statisticsDatabase, prompts, out) ==
    IF prompts = {} THEN out
    ELSE LET prompt == CHOOSE x \in prompts : TRUE
             stats == statisticsDatabase.statistics[prompt]
         IN  IF stats.correct = 0 /\ stats.mistakes = 0
             THEN packLoop(statisticsDatabase, prompts \ {prompt}, out)
             ELSE packLoop(statisticsDatabase, prompts \ {prompt},
                      MapSet(out, encode(prompt),
                          promptDataTOML(stats.streak, stats.correct, stats.mistakes,
                              MapGet(statisticsDatabase.answers, prompt, str_empty))))

pack_liveOnly(statisticsDatabase) ==
    packLoop(statisticsDatabase, DOMAIN statisticsDatabase.statistics, EmptyMap)

pack(statisticsDatabase) ==
    packLoop(statisticsDatabase, DOMAIN statisticsDatabase.statistics,
             statisticsDatabase.deadRecords)


\* ---------------------------------------------------------------- sampling
\* the orders in which a range loop may visit the keys of a map
RECURSIVE Orders(_)
Orders(S) ==
    IF S = {} THEN {<<>>}
    ELSE UNION {{<<x>> \o rest : rest \in Orders(S \ {x})} : x \in S}

NoQuestion == [found |-> FALSE, prompt |-> Prompt(<<>>, <<>>), correctAnswer |-> <<>>]

\* the range loop of getRandomQuestion over the entries in the order `order`,
\* random_float_index = r on entry
RECURSIVE passLoop(_, _, _, _)
passLoop(statistics, order, i, r) ==
    IF i > Len(order) THEN NoQuestion
    ELSE LET random_float_index == r - probWeight(statistics.statistics[order[i]])
         IN  IF random_float_index <= 0
             THEN [found |-> TRUE, prompt |-> order[i],
                   correctAnswer |-> MapGet(statistics.answers, order[i], str_empty)]
             ELSE passLoop(statistics, order, i + 1, random_float_index)

\* the same loop testing before it subtracts
RECURSIVE passLoop_testFirst(_, _, _, _)
passLoop_testFirst(statistics, order, i, r) ==
    IF i > Len(order) THEN NoQuestion
    ELSE IF r <= 0
         THEN [found |-> TRUE, prompt |-> order[i],
               correctAnswer |-> MapGet(statistics.answers, order[i], str_empty)]
         ELSE passLoop_testFirst(statistics, order, i + 1,
                  r - probWeight(statistics.statistics[order[i]]))

getRandomQuestionPass_testFirst(statistics, order, r) ==
    passLoop_testFirst(statistics, order, 1, r)

\* the same loop giving every entry the weight 1, whatever its streak
RECURSIVE passLoop_uniform(_, _, _, _)
passLoop_uniform(statistics, order, i, r) ==
    IF i > Len(order) THEN NoQuestion
    ELSE LET random_float_index == r - probWeight(ZeroStats)
         IN  IF random_float_index <= 0
             THEN [found |-> TRUE, prompt |-> order[i],
                   correctAnswer |-> MapGet(statistics.answers, order[i], str_empty)]
             ELSE passLoop_uniform(statistics, order, i + 1, random_float_index)

getRandomQuestionPass_uniform(statistics, order, r) ==
    passLoop_uniform(statistics, order, 1, r)

\* the same loop adding each weight to the index instead of subtracting it
RECURSIVE passLoop_adding(_, _, _, _)
passLoop_adding(statistics, order, i, r) ==
    IF i > Len(order) THEN NoQuestion
    ELSE LET random_float_index == r + probWeight(statistics.statistics[order[i]])
         IN  IF random_float_index <= 0
             THEN [found |-> TRUE, prompt |-> order[i],
                   correctAnswer |-> MapGet(statistics.answers, order[i], str_empty)]
             ELSE passLoop_adding(statistics, order, i + 1, random_float_index)

getRandomQuestionPass_adding(statistics, order, r) ==
    passLoop_adding(statistics, order, 1, r)

\* one pass of getRandomQuestion (without the recursive retry)
getRandomQuestionPass(statistics, order, r) == passLoop(statistics, order, 1, r)

\* rand.Float32() * statistics.totalProbWeight for rand.Float32() = k / RandSteps
randomFloatIndex(statistics, k) == (k * statistics.totalProbWeight) \div RandSteps

\* ---------------------------------------------------------------- statistics files
\* a file on disk: missing (or unreadable: os.ReadFile fails), not TOML, or a
\* parsed table
fileAbsent == [kind |-> "absent", Statistics |-> EmptyMap]
fileGarbage == [kind |-> "garbage", Statistics |-> EmptyMap]
fileTOML(Statistics) == [kind |-> "toml", Statistics |-> Statistics]

\* entries a statistics file may hold
SnapshotEntries ==
    { <<encode(Prompt(str_1sg, str_run)), promptDataTOML(1, 1, 0, str_run)>>,
      <<encode(Prompt(str_1sg, str_run)), promptDataTOML(5, 7, 2, str_old)>>,
      <<encode(Prompt(str_2sg, str_run)), promptDataTOML(2, 3, 1, str_run)>>,
      <<encode(Prompt(str_3sg, str_run)), promptDataTOML(0, 65535, 0, str_runs)>>,
      <<encode(Prompt(str_3sg, str_run)), promptDataTOML(65535, 65535, 0, str_runs)>>,
      <<str_onlyonefield, promptDataTOML(0, 1, 0, str_run)>>,
      <<str_a_b_c, promptDataTOML(0, 0, 1, str_run)>> }

Snapshots ==
    { [k \in {e[1] : e \in E} |-> (CHOOSE e \in E : e[1] = k)[2]] :
        E \in { X \in SUBSET SnapshotEntries :
                  /\ X # {}
                  /\ Cardinality(X) <= MaxSnapshotEntries
                  /\ \A a, b \in X : a[1] = b[1] => a = b } }

StatisticsFiles == {fileAbsent, fileGarbage} \cup {fileTOML(t) : t \in Snapshots}

\* what the user may have typed into the input field
InputValues == {str_empty, str_run_padded, str_runs}

\* ---------------------------------------------------------------- state
VARIABLES
    database,        \* the wordDatabase returned by read_database
    statisticsFile,  \* statistics.toml on disk
    statisticsTOML,  \* the table parsed from the file by loadStatistics
    statistics,      \* the statisticsDatabase behind quizScreen.statistics
    pc,              \* "emptyStatistics", "readStatistics", "getRandomQuestion", "run", "exited"
    caller,          \* who called getRandomQuestion
    retries,         \* recursive calls of getRandomQuestion in the current draw
    screen,          \* model.screen: "none", "quizScreen", "statisticsScreen"
    mode,            \* quizScreen.mode
    question,        \* quizScreen.question
    inputValue,      \* quizScreen.inputField.Value()
    msgs,            \* messages produced by commands and not yet delivered
    exitCode,        \* os.Exit status, or the return of main
    answered,        \* submissions so far
    saved,           \* saveStatistics wrote the file
    scored           \* continueStreak / endStreak calls since the last draw

vars == <<database, statisticsFile, statisticsTOML, statistics, pc, caller, retries,
          screen, mode, question, inputValue, msgs, exitCode, answered, saved, scored>>

Init ==
    /\ database \in Databases
    /\ statisticsFile \in StatisticsFiles
    /\ statisticsTOML = EmptyMap
    /\ statistics = statisticsDatabaseOf(EmptyMap, EmptyMap, 0, EmptyMap)
    /\ pc = "emptyStatistics"
    /\ caller = "initialModel"
    /\ retries = 0
    /\ screen = "none"
    /\ mode = "input"
    /\ question = NoQuestion
    /\ inputValue = str_empty
    /\ msgs = {}
    /\ exitCode = noExit
    /\ answered = 0
    /\ saved = FALSE
    /\ scored = 0

sessionVars == <<screen, mode, question, inputValue, msgs, answered, saved, scored>>

\* exit(code)
Exit(code) == pc' = "exited" /\ exitCode' = code

\* ---------------------------------------------------------------- startup
\* loadStatistics, first statement: database.emptyStatistics()
EmptyStatistics ==
    /\ pc = "emptyStatistics"
    /\ statistics' = emptyStatistics(database)
    /\ pc' = "readStatistics"
    /\ UNCHANGED <<database, statisticsFile, statisticsTOML, caller, retries, exitCode,
                   sessionVars>>

\* loadStatistics: os.ReadFile fails (not found, or another error): the empty
\* statistics are returned and initialModel draws the first question
StatisticsFileNotRead ==
    /\ pc = "readStatistics"
    /\ statisticsFile.kind = "absent"
    /\ pc' = "getRandomQuestion"
    /\ UNCHANGED <<database, statisticsFile, statisticsTOML, statistics, caller, retries,
                   exitCode, sessionVars>>

\* loadStatistics: toml.Unmarshal fails
StatisticsFileNotParsed ==
    /\ pc = "readStatistics"
    /\ statisticsFile.kind = "garbage"
    /\ Exit(statisticsError)
    /\ UNCHANGED <<database, statisticsFile, statisticsTOML, statistics, caller, retries,
                   sessionVars>>

\* loadStatistics: statistics.expand(statisticsTOML), the map visited in any order
Expand ==
    /\ pc = "readStatistics"
    /\ statisticsFile.kind = "toml"
    /\ statisticsTOML' = statisticsFile.Statistics
    /\ \E keys \in Orders(DOMAIN statisticsFile.Statistics) :
         LET r == expand(statistics, statisticsFile.Statistics, keys)
         IN  /\ statistics' = r.statistics
             /\ IF r.fatal
                THEN Exit(statisticsError)
                ELSE pc' = "getRandomQuestion" /\ exitCode' = exitCode
    /\ UNCHANGED <<database, statisticsFile, caller, retries, sessionVars>>


\* ---------------------------------------------------------------- getRandomQuestion
\* a pass that crosses zero: the question is returned to the caller, which is
\* initialModel (the quiz screen is built, in input mode) or validateUpdate
\* (the input field is reset and the mode becomes input)
GetRandomQuestionReturn ==
    /\ pc = "getRandomQuestion"
    /\ \E k \in 0 .. (RandSteps - 1), order \in Orders(DOMAIN statistics.statistics) :
         LET q == getRandomQuestionPass(statistics, order, randomFloatIndex(statistics, k))
         IN  /\ q.found
             /\ question' = q
    /\ pc' = "run"
    /\ retries' = 0
    /\ screen' = "quizScreen"
    /\ mode' = "input"
    /\ inputValue' = str_empty
    /\ scored' = 0
    /\ UNCHANGED <<database, statisticsFile, statisticsTOML, statistics, caller, msgs,
                   exitCode, answered, saved>>

\* a pass that ends without crossing zero: the warning is logged and
\* getRandomQuestion calls itself
GetRandomQuestionRetry ==
    /\ pc = "getRandomQuestion"
    /\ retries < MaxRetries
    /\ \E k \in 0 .. (RandSteps - 1), order \in Orders(DOMAIN statistics.statistics) :
         ~ getRandomQuestionPass(statistics, order, randomFloatIndex(statistics, k)).found
    /\ retries' = retries + 1
    /\ UNCHANGED <<database, statisticsFile, statisticsTOML, statistics, pc, caller,
                   exitCode, sessionVars>>

\* ---------------------------------------------------------------- key messages
\* quizScreen.isAnswerCorrect
isAnswerCorrect(q, value) == TrimSpace(q.correctAnswer) = TrimSpace(value)

\* a printable key in input mode: inputField.Update edits the text
TypeInput ==
    /\ pc = "run" /\ screen = "quizScreen" /\ mode = "input"
    /\ inputValue' \in InputValues \ {inputValue}
    /\ UNCHANGED <<database, statisticsFile, statisticsTOML, statistics, pc, caller,
                   retries, screen, mode, question, msgs, exitCode, answered, saved, scored>>

\* inputUpdate, "enter", without the switch to validation mode
SubmitAnswer_staysInInput ==
    /\ pc = "run" /\ screen = "quizScreen" /\ mode = "input"
    /\ answered < MaxAnswers
    /\ statistics' = IF isAnswerCorrect(question, inputValue)
                     THEN continueStreak(statistics, question.prompt)
                     ELSE endStreak(statistics, question.prompt)
    /\ answered' = answered + 1
    /\ scored' = scored + 1
    /\ UNCHANGED <<database, statisticsFile, statisticsTOML, pc, caller, retries, screen,
                   mode, question, inputValue, msgs, exitCode, saved>>

\* inputUpdate, "enter"
SubmitAnswer ==
    /\ pc = "run" /\ screen = "quizScreen" /\ mode = "input"
    /\ answered < MaxAnswers
    /\ statistics' = IF isAnswerCorrect(question, inputValue)
                     THEN continueStreak(statistics, question.prompt)
                     ELSE endStreak(statistics, question.prompt)
    /\ mode' = "validation"
    /\ answered' = answered + 1
    /\ scored' = scored + 1
    /\ UNCHANGED <<database, statisticsFile, statisticsTOML, pc, caller, retries, screen,
                   question, inputValue, msgs, exitCode, saved>>

\* validateUpdate, "enter": screen.statistics.getRandomQuestion() is entered
RequestNewQuestion ==
    /\ pc = "run" /\ screen = "quizScreen" /\ mode = "validation"
    /\ pc' = "getRandomQuestion"
    /\ caller' = "validateUpdate"
    /\ retries' = 0
    /\ UNCHANGED <<database, statisticsFile, statisticsTOML, statistics, exitCode,
                   sessionVars>>

\* quizScreen.Update, "ctrl+s": the statistics screen, previousScreen = &screen
OpenStatisticsScreen ==
    /\ pc = "run" /\ screen = "quizScreen"
    /\ screen' = "statisticsScreen"
    /\ UNCHANGED <<database, statisticsFile, statisticsTOML, statistics, pc, caller,
                   retries, mode, question, inputValue, msgs, exitCode, answered, saved, scored>>

\* statisticsScreen.Update, "ctrl+s" / "backspace": back to previousScreen
CloseStatisticsScreen ==
    /\ pc = "run" /\ screen = "statisticsScreen"
    /\ screen' = "quizScreen"
    /\ UNCHANGED <<database, statisticsFile, statisticsTOML, statistics, pc, caller,
                   retries, mode, question, inputValue, msgs, exitCode, answered, saved, scored>>

\* model.Update, "ctrl+c" / "esc": the command that yields ExitScreenMessage
RequestQuit ==
    /\ pc = "run"
    /\ msgs' = msgs \cup {"ExitScreenMessage"}
    /\ UNCHANGED <<database, statisticsFile, statisticsTOML, statistics, pc, caller,
                   retries, screen, mode, question, inputValue, exitCode, answered, saved, scored>>

\* ---------------------------------------------------------------- quit protocol
\* quizScreen.Update, ExitScreenMessage: saveStatistics, the file is written
QuizScreenExitSaved ==
    /\ pc = "run" /\ screen = "quizScreen"
    /\ "ExitScreenMessage" \in msgs
    /\ LET packed == pack(statistics)
       IN  /\ statistics' = [statistics EXCEPT !.deadRecords = packed]
           /\ statisticsFile' = fileTOML(packed)
    /\ saved' = TRUE
    /\ msgs' = (msgs \ {"ExitScreenMessage"}) \cup {"ScreenExitedMessage"}
    /\ UNCHANGED <<database, statisticsTOML, pc, caller, retries, screen, mode, question,
                   inputValue, exitCode, answered, scored>>

\* quizScreen.Update, ExitScreenMessage: saveStatistics, os.WriteFile fails
QuizScreenExitWriteFailed ==
    /\ pc = "run" /\ screen = "quizScreen"
    /\ "ExitScreenMessage" \in msgs
    /\ statistics' = [statistics EXCEPT !.deadRecords = pack(statistics)]
    /\ msgs' = msgs \ {"ExitScreenMessage"}
    /\ Exit(statisticsError)
    /\ UNCHANGED <<database, statisticsFile, statisticsTOML, caller, retries, screen, mode,
                   question, inputValue, answered, saved, scored>>

\* statisticsScreen.Update, ExitScreenMessage
StatisticsScreenExit ==
    /\ pc = "run" /\ screen = "statisticsScreen"
    /\ "ExitScreenMessage" \in msgs
    /\ msgs' = (msgs \ {"ExitScreenMessage"}) \cup {"ScreenExitedMessage"}
    /\ UNCHANGED <<database, statisticsFile, statisticsTOML, statistics, pc, caller,
                   retries, screen, mode, question, inputValue, exitCode, answered, saved, scored>>

\* model.Update, ScreenExitedMessage: return m, tea.Quit; p.Run returns nil
\* and main returns
ScreenExited ==
    /\ pc = "run"
    /\ "ScreenExitedMessage" \in msgs
    /\ msgs' = msgs \ {"ScreenExitedMessage"}
    /\ Exit(ok)
    /\ UNCHANGED <<database, statisticsFile, statisticsTOML, statistics, caller, retries,
                   screen, mode, question, inputValue, answered, saved, scored>>

Next ==
    \/ EmptyStatistics
    \/ StatisticsFileNotRead
    \/ StatisticsFileNotParsed
    \/ Expand
    \/ GetRandomQuestionReturn
    \/ GetRandomQuestionRetry
    \/ TypeInput
    \/ SubmitAnswer
    \/ RequestNewQuestion
    \/ OpenStatisticsScreen
    \/ CloseStatisticsScreen
    \/ RequestQuit
    \/ QuizScreenExitSaved
    \/ QuizScreenExitWriteFailed
    \/ StatisticsScreenExit
    \/ ScreenExited

Spec == Init /\ [][Next]_vars


\* rand.Float32() is fair: a draw that makes the pass cross zero is not
\* withheld forever while getRandomQuestion is running
LiveSpec == Spec /\ WF_vars(GetRandomQuestionReturn)


\* ================================================================ properties
p_1sg_run == Prompt(str_1sg, str_run)
p_3sg_run == Prompt(str_3sg, str_run)

\* the cells of the table that hold a form
ValidCells(db) ==
    { c \in (1 .. Len(db.verbs)) \X (1 .. Len(db.formClue)) :
        /\ c[2] <= Len(db.verbForms[c[1]])
        /\ db.verbForms[c[1]][c[2]] # str_empty }

CellPrompt(db, c) == Prompt(db.formClue[c[2]], db.verbs[c[1]])

\* no (clue, verb) pair is named by two cells
NoDuplicatePairs(db) ==
    \A c, d \in ValidCells(db) : CellPrompt(db, c) = CellPrompt(db, d) => c = d

\* loadStatistics has returned to initialModel
Loaded == pc \in {"getRandomQuestion", "run"} \/ (pc = "exited" /\ screen # "none")

\* number of separators in a key of the statistics file
RECURSIVE SeparatorCount(_)
SeparatorCount(k) ==
    IF k = <<>> THEN 0
    ELSE (IF Head(k) = statisticsPromptSeparator THEN 1 ELSE 0) + SeparatorCount(Tail(k))

\* the prompt "<clue>+<verb>" names, for a key with exactly one separator
RECURSIVE ClueOf(_)
ClueOf(k) == IF Head(k) = statisticsPromptSeparator THEN <<>> ELSE <<Head(k)>> \o ClueOf(Tail(k))

KeyPrompt(k) == Prompt(ClueOf(k), SubSeq(k, Len(ClueOf(k)) + 2, Len(k)))

\* the keys of the file read at startup that name a prompt
WellFormedKeys == {k \in DOMAIN statisticsTOML : SeparatorCount(k) = 1}

RECURSIVE SeqOfSet(_)
SeqOfSet(S) ==
    IF S = {} THEN <<>>
    ELSE LET x == CHOOSE y \in S : TRUE IN <<x>> \o SeqOfSet(S \ {x})

\* ---------------------------------------------------------------- C1
\* C1: in a store built by emptyStatistics from a vocabulary without duplicate
\* (clue, verb) pairs and changed only by continueStreak / endStreak,
\* totalProbWeight equals the sum of 1/(1+streak) over all entries.
C1_WeightInvariant ==
    (NoDuplicatePairs(database) /\ statisticsTOML = EmptyMap /\ pc # "emptyStatistics")
        => statistics.totalProbWeight = LiveWeight(statistics.statistics)

\* ---------------------------------------------------------------- C2
\* C2: whenever the quit path has passed the screen (ScreenExitedMessage is
\* in flight, or the program has quit normally) the statistics were saved.
C2_QuitAlwaysSaves ==
    ("ScreenExitedMessage" \in msgs \/ (pc = "exited" /\ exitCode = ok)) => saved

\* ---------------------------------------------------------------- C3
\* C3: with zero valid prompts, once loadStatistics is over the process has
\* terminated with a fatal exit status; the first draw is never entered.
C3_EmptyCatalogFatal ==
    (DOMAIN statistics.statistics = {} /\ pc \notin {"emptyStatistics", "readStatistics"})
        => (pc = "exited" /\ exitCode \notin {ok, noExit} /\ screen = "none")

\* ---------------------------------------------------------------- C4
\* what expanding pack(store) into a freshly built store of the same
\* vocabulary yields
RoundTrip ==
    LET packed == pack(statistics)
    IN  expand(emptyStatistics(database), packed, SeqOfSet(DOMAIN packed))

\* C4: expanding pack(store) into a fresh store of the same vocabulary gives
\* every prompt exactly the {streak, correct, mistakes} it has in the store.
C4_PackReconcileRoundTrip ==
    pc \in {"getRandomQuestion", "run"}
        => /\ ~ RoundTrip.fatal
           /\ \A p \in DOMAIN statistics.statistics :
                MapGet(RoundTrip.statistics.statistics, p, ZeroStats) = statistics.statistics[p]

\* ---------------------------------------------------------------- C5
\* the saved entries whose prompt is absent from the vocabulary
DeadKeys == {k \in WellFormedKeys : KeyPrompt(k) \notin DOMAIN statistics.statistics}

\* C5: a saved entry whose prompt is absent from the vocabulary is in the
\* output of pack, and in every file written, under the same key with the
\* same Streak, Correct, Mistakes and Answer, whatever was answered since.
C5_DeadRecordRoundTrip ==
    Loaded =>
        \A k \in DeadKeys :
            /\ k \in DOMAIN pack(statistics)
            /\ pack(statistics)[k] = statisticsTOML[k]
            /\ saved => /\ k \in DOMAIN statisticsFile.Statistics
                        /\ statisticsFile.Statistics[k] = statisticsTOML[k]

C5_Witness ==
    /\ Loaded /\ saved /\ answered > 0
    /\ \E k \in DeadKeys : statisticsFile.Statistics[k] = statisticsTOML[k]
    /\ \E k \in DOMAIN statisticsFile.Statistics : k \notin DeadKeys

\* ---------------------------------------------------------------- C6
\* the saved entries of live prompts whose recorded answer is not the fresh one
ChangedAnswerKeys ==
    {k \in WellFormedKeys :
        /\ KeyPrompt(k) \in DOMAIN statistics.statistics
        /\ statisticsTOML[k].Answer # statistics.answers[KeyPrompt(k)]}

\* C6: a saved entry of a live prompt P with another answer leaves P at
\* (0,0,0) after expand and is not kept as a dead record; pack never writes
\* the saved counters back: an entry under that key is P's current one.
C6_AnswerChangeReset ==
    Loaded =>
        \A k \in ChangedAnswerKeys :
            LET P == KeyPrompt(k)
                stats == statistics.statistics[P]
            IN  /\ answered = 0 =>
                     /\ stats = ZeroStats
                     /\ k \notin DOMAIN statistics.deadRecords
                     /\ k \notin DOMAIN pack(statistics)
                /\ k \in DOMAIN pack(statistics) =>
                     pack(statistics)[k] =
                        promptDataTOML(stats.streak, stats.correct, stats.mistakes,
                                       statistics.answers[P])

C6_Witness ==
    /\ pc = "run" /\ answered = 0
    /\ \E k \in ChangedAnswerKeys : statisticsTOML[k].Streak = 5

\* ---------------------------------------------------------------- C7
\* the saved entries expand adopts
AdoptedKeys ==
    {k \in WellFormedKeys :
        /\ KeyPrompt(k) \in DOMAIN statistics.statistics
        /\ statisticsTOML[k].Answer = statistics.answers[KeyPrompt(k)]}

\* C7: in the store loadStatistics returns after expand adopted saved
\* counters, totalProbWeight equals the sum of 1/(1+streak) over all entries.
C7_ReconcileKeepsWeight ==
    (/\ pc = "getRandomQuestion" /\ caller = "initialModel"
     /\ NoDuplicatePairs(database)
     /\ AdoptedKeys # {})
        => statistics.totalProbWeight = LiveWeight(statistics.statistics)

\* ---------------------------------------------------------------- C8
\* C8: totalProbWeight returned by emptyStatistics equals the number of
\* entries of the statistics map.
C8_CatalogTotalWeight ==
    pc = "readStatistics"
        => statistics.totalProbWeight = Cardinality(DOMAIN statistics.statistics) * Scale

\* ---------------------------------------------------------------- C9
\* the store of the end-to-end example: 1sg+run at streak 1, 3sg+run at streak 0
ExampleStore ==
    /\ Loaded
    /\ DOMAIN statistics.statistics = {p_1sg_run, p_3sg_run}
    /\ statistics.statistics[p_1sg_run].streak = 1
    /\ statistics.statistics[p_3sg_run].streak = 0

\* r = 1.4
R14 == (14 * Scale) \div 10

\* C9 as stated: with r = 1.4 the pass selects 3sg+run in either order.
C9_SamplerExample_AnyOrder ==
    ExampleStore =>
        \A order \in Orders(DOMAIN statistics.statistics) :
            LET q == getRandomQuestionPass(statistics, order, R14)
            IN  q.found /\ q.prompt = p_3sg_run

\* C9 amended: with r = 1.4 the pass selects the entry it visits second:
\* 3sg+run when 1sg+run is visited first, 1sg+run when 3sg+run is visited first.
C9_SamplerExample_SecondVisited ==
    ExampleStore =>
        LET q13 == getRandomQuestionPass(statistics, <<p_1sg_run, p_3sg_run>>, R14)
            q31 == getRandomQuestionPass(statistics, <<p_3sg_run, p_1sg_run>>, R14)
        IN  /\ q13.found /\ q13.prompt = p_3sg_run
            /\ q31.found /\ q31.prompt = p_1sg_run

C9_Witness ==
    /\ ExampleStore
    /\ pc = "run" /\ caller = "validateUpdate" /\ mode = "input"
    /\ question.prompt = p_1sg_run

\* ---------------------------------------------------------------- C10
\* C10: a key of the statistics file without exactly one separator ends
\* startup with exit(statisticsError) before any screen exists; the key is
\* neither kept as a dead record nor turned into an entry of the store.
C10_MalformedKeyRejection ==
    \A k \in DOMAIN statisticsTOML :
        SeparatorCount(k) # 1 =>
            /\ pc = "exited" /\ exitCode = statisticsError /\ screen = "none"
            /\ k \notin DOMAIN statistics.deadRecords
            /\ DOMAIN statistics.statistics = DOMAIN emptyStatistics(database).statistics

C10_Witness ==
    /\ pc = "exited" /\ exitCode = statisticsError
    /\ \E k \in DOMAIN statisticsTOML : SeparatorCount(k) = 0
    /\ \E k \in DOMAIN statisticsTOML : SeparatorCount(k) = 2


\* ---------------------------------------------------------------- C11
\* a string without its leading and trailing spaces
NonSpaceAt(s) == {i \in 1 .. Len(s) : s[i] # " "}

Stripped(s) ==
    IF NonSpaceAt(s) = {} THEN <<>>
    ELSE SubSeq(s, CHOOSE i \in NonSpaceAt(s) : \A j \in NonSpaceAt(s) : i <= j,
                   CHOOSE i \in NonSpaceAt(s) : \A j \in NonSpaceAt(s) : i >= j)

\* C11: a submission of the shown question's prompt p with entry {s, c, m}
\* leaves {s+1, c+1, m} when the trimmed input equals the trimmed expected
\* answer (continueStreak) and {0, c, m+1} otherwise (endStreak).
C11_SubmissionTransition ==
    [][ answered' = answered + 1 =>
          LET old == statistics.statistics[question.prompt]
              new == statistics'.statistics[question.prompt]
          IN  IF Stripped(inputValue) = Stripped(question.correctAnswer)
              THEN new = questionStats(old.streak + 1, old.correct + 1, old.mistakes)
              ELSE new = questionStats(0, old.correct, old.mistakes + 1) ]_vars


\* ---------------------------------------------------------------- C12
\* the key "<clue>+<verb>" of a prompt
KeyOf(p) == p.formClue \o <<"+">> \o p.verb

\* the output of pack holds a live prompt exactly when its correct and
\* mistakes counters are not both zero, with its current counters and answer
PackHoldsAnswered ==
    LET packed == pack(statistics)
    IN  \A p \in DOMAIN statistics.statistics :
            LET stats == statistics.statistics[p]
            IN  /\ KeyOf(p) \in DOMAIN packed <=> ~ (stats.correct = 0 /\ stats.mistakes = 0)
                /\ KeyOf(p) \in DOMAIN packed =>
                     packed[KeyOf(p)] =
                        promptDataTOML(stats.streak, stats.correct, stats.mistakes,
                                       statistics.answers[p])

\* C12: pack holds exactly the answered live prompts, each under
\* "<clue>+<verb>" with its current counters and answer; the prompt just
\* attempted (the question shown in validation mode) is among them.
C12_PackContents ==
    Loaded =>
        /\ PackHoldsAnswered
        /\ (pc = "run" /\ mode = "validation") =>
              KeyOf(question.prompt) \in DOMAIN pack(statistics)

\* ---------------------------------------------------------------- C13
\* every (verb row, clue column) pair of the vocabulary
Cells(db) == (1 .. Len(db.verbs)) \X (1 .. Len(db.formClue))

\* C13: right after emptyStatistics, every present non-empty cell has its
\* prompt (clue, verb) with stats (0,0,0) and that cell as its answer; a
\* missing or empty cell has no prompt.
C13_CatalogContents ==
    pc = "readStatistics" =>
        \A c \in Cells(database) :
            IF c \in ValidCells(database)
            THEN /\ CellPrompt(database, c) \in DOMAIN statistics.statistics
                 /\ statistics.statistics[CellPrompt(database, c)] = ZeroStats
                 /\ statistics.answers[CellPrompt(database, c)] =
                        database.verbForms[c[1]][c[2]]
            ELSE CellPrompt(database, c) \notin DOMAIN statistics.statistics

\* ---------------------------------------------------------------- C14
\* the weights of the first i entries of an iteration order, added up
RECURSIVE CumWeight(_, _, _)
CumWeight(st, order, i) ==
    IF i = 0 THEN 0
    ELSE CumWeight(st, order, i - 1) + probWeight(st.statistics[order[i]])

\* values of r in [0, totalProbWeight): the draws k/RandSteps of the total and
\* the ends of every entry's range, one unit below and one unit above them
SamplePoints(st, order) ==
    { r \in {randomFloatIndex(st, k) : k \in 0 .. (RandSteps - 1)}
            \cup UNION { {CumWeight(st, order, i) - 1, CumWeight(st, order, i),
                          CumWeight(st, order, i) + 1} : i \in 0 .. Len(order) } :
        0 <= r /\ r < st.totalProbWeight }

\* C14: for the store of every call of getRandomQuestion and every iteration
\* order, one pass returns the i-th visited prompt exactly for the r between
\* the weights added up before it and after it, a range of length
\* 1/(1+streak) that lies inside [0, totalProbWeight]; the returned
\* correctAnswer is answers[prompt], and so is that of the question shown.
C14_SamplerProportionality ==
    /\ pc = "getRandomQuestion" =>
         \A order \in Orders(DOMAIN statistics.statistics) :
             /\ CumWeight(statistics, order, Len(order)) <= statistics.totalProbWeight
             /\ \A r \in SamplePoints(statistics, order) :
                  LET q == getRandomQuestionPass(statistics, order, r)
                  IN  /\ \A i \in 1 .. Len(order) :
                            (q.found /\ q.prompt = order[i]) <=>
                               \/ /\ CumWeight(statistics, order, i - 1) < r
                                  /\ r <= CumWeight(statistics, order, i - 1)
                                          + Scale \div (1 + statistics.statistics[order[i]].streak)
                               \/ i = 1 /\ r = 0
                      /\ q.found => q.correctAnswer = statistics.answers[q.prompt]
    /\ pc = "run" => question.correctAnswer = statistics.answers[question.prompt]

\* a question of weight 1/2 drawn from a store of two prompts of unequal weight
C14_Witness ==
    /\ pc = "run"
    /\ mode = "input"
    /\ Cardinality(DOMAIN statistics.statistics) = 2
    /\ statistics.statistics[question.prompt].streak = 1
    /\ \E p \in DOMAIN statistics.statistics : statistics.statistics[p].streak = 0

\* ---------------------------------------------------------------- C15
\* C15: once the quiz is on screen the program ends only along the normal
\* quit path, with exit status ok; a failed write of the statistics file
\* during the quit sequence is no fatal termination.
C15_SaveFailureRecoverable ==
    (pc = "exited" /\ screen # "none") => exitCode = ok

\* ---------------------------------------------------------------- C16
\* C16: in exact arithmetic, for the store of every state after loading (with
\* at least one prompt, from a vocabulary that names no pair twice), every
\* iteration order and every draw r in [0, totalProbWeight), one pass of
\* getRandomQuestion selects a prompt, so the retry branch is never taken.
C16_NoMissInExactArithmetic ==
    (Loaded /\ NoDuplicatePairs(database) /\ DOMAIN statistics.statistics # {}) =>
        /\ \A order \in Orders(DOMAIN statistics.statistics) :
             \A k \in 0 .. (RandSteps - 1) :
                getRandomQuestionPass(statistics, order, randomFloatIndex(statistics, k)).found
        /\ retries = 0

\* ---------------------------------------------------------------- C17
\* C17: with a fair random source, getRandomQuestion called on a store with
\* at least one prompt eventually returns a question to its caller.
C17_SamplerTerminates ==
    (pc = "getRandomQuestion" /\ DOMAIN statistics.statistics # {}) ~> (pc = "run")

\* getRandomQuestion, called for the next question, has missed and retried
C17_Witness ==
    /\ pc = "getRandomQuestion"
    /\ caller = "validateUpdate"
    /\ retries = MaxRetries
    /\ DOMAIN statistics.statistics # {}

\* ---------------------------------------------------------------- C18
\* C18: a continueStreak / endStreak call is made only by a submit in input
\* mode; it changes the entry of the shown question's prompt and no other,
\* keeps the question and switches to validation mode. The live counters
\* change in no other step. A draw for the next question starts in validation
\* mode after exactly one such call, changes no statistics and ends in input
\* mode. Opening and closing the statistics screen keeps mode, question and
\* statistics. So while a question is shown it has been scored once in
\* validation mode and not at all in input mode.
C18_OneUpdatePerQuestion ==
    [][ /\ scored' = scored + 1 =>
             /\ mode = "input" /\ mode' = "validation"
             /\ question' = question
             /\ \A p \in DOMAIN statistics.statistics :
                   (statistics'.statistics[p] # statistics.statistics[p])
                       <=> p = question.prompt
        /\ (Loaded /\ statistics'.statistics # statistics.statistics) =>
               scored' = scored + 1
        /\ (caller = "validateUpdate" /\ pc = "run" /\ pc' = "getRandomQuestion") =>
               mode = "validation" /\ scored = 1 /\ statistics' = statistics
        /\ (caller = "validateUpdate" /\ pc = "getRandomQuestion" /\ pc' = "run") =>
               scored = 1 /\ scored' = 0 /\ mode' = "input" /\ statistics' = statistics
        /\ (screen # "none" /\ screen' # screen) =>
               UNCHANGED <<mode, question, statistics, scored>>
        /\ pc' = "run" => scored' = (IF mode' = "validation" THEN 1 ELSE 0)
      ]_vars

\* the second question is shown, the first was scored once, and the
\* statistics screen is open
C18_Witness ==
    /\ pc = "run"
    /\ caller = "validateUpdate"
    /\ screen = "statisticsScreen"
    /\ mode = "input"
    /\ scored = 0
    /\ answered = 1

\* ---------------------------------------------------------------- C19
\* the prompts of the cells that hold a form
ValidPrompts(db) == {CellPrompt(db, c) : c \in ValidCells(db)}

\* C19: from the catalog build on (after expand, any submission, viewing the
\* statistics, pack and save) statistics and answers have the valid prompts
\* of the vocabulary as their keys, and answers is the map emptyStatistics
\* built.
C19_LivePromptSetFixed ==
    pc # "emptyStatistics" =>
        /\ DOMAIN statistics.statistics = ValidPrompts(database)
        /\ DOMAIN statistics.answers = ValidPrompts(database)
        /\ statistics.answers = emptyStatistics(database).answers

\* a file entry of a prompt missing from the vocabulary was read, a question
\* was answered, the statistics were saved and are being viewed
C19_Witness ==
    /\ pc = "run"
    /\ screen = "statisticsScreen"
    /\ saved
    /\ answered > 0
    /\ \E k \in WellFormedKeys : KeyPrompt(k) \notin ValidPrompts(database)

\* ---------------------------------------------------------------- C20
\* C20: in every state after loading, whether pack has run or not, every key
\* of deadRecords names a prompt that is not in statistics.
C20_DeadRecordsStayDead ==
    Loaded =>
        \A k \in DOMAIN statistics.deadRecords :
            KeyPrompt(k) \notin DOMAIN statistics.statistics

\* ---------------------------------------------------------------- C21
\* C21: a submission with the correct answer (continueStreak on the shown
\* question's prompt) leaves the prompt a weight 1/(1+streak) strictly
\* smaller than the one it had, whatever streak the 16-bit counter held.
C21_CorrectAnswerLowersWeight ==
    [][ (answered' = answered + 1 /\ isAnswerCorrect(question, inputValue)) =>
            probWeight(statistics'.statistics[question.prompt])
                < probWeight(statistics.statistics[question.prompt]) ]_vars

\* ---------------------------------------------------------------- C22
\* what continueStreak / endStreak leave alone: the entries of the prompts
\* other than p, the set of prompts, answers and deadRecords
OnlyEntryChanged(before, after, p) ==
    /\ DOMAIN after.statistics = DOMAIN before.statistics
    /\ \A x \in DOMAIN before.statistics \ {p} :
          after.statistics[x] = before.statistics[x]
    /\ after.answers = before.answers
    /\ after.deadRecords = before.deadRecords

\* C22: in every step, continueStreak(p) and endStreak(p) called on the
\* store for any of its prompts p change the entry of p only; a submission
\* changes only the entry of the shown question's prompt, and the question on
\* the screen keeps its prompt and correctAnswer.
C22_MutationLocality ==
    [][ /\ Loaded =>
             \A p \in DOMAIN statistics.statistics :
                 /\ OnlyEntryChanged(statistics, continueStreak(statistics, p), p)
                 /\ OnlyEntryChanged(statistics, endStreak(statistics, p), p)
        /\ scored' = scored + 1 =>
             /\ OnlyEntryChanged(statistics, statistics', question.prompt)
             /\ statistics'.statistics[question.prompt]
                    # statistics.statistics[question.prompt]
             /\ question'.prompt = question.prompt
             /\ question'.correctAnswer = question.correctAnswer ]_vars

\* a question was just scored in a store that holds another prompt with
\* counters of its own and a dead record
C22_Witness ==
    /\ pc = "run"
    /\ mode = "validation"
    /\ scored = 1
    /\ statistics.deadRecords # EmptyMap
    /\ \E p \in DOMAIN statistics.statistics :
          p # question.prompt /\ statistics.statistics[p] # ZeroStats

====
